---- MODULE Spec2Model ----
(***************************************************************************)
(* PHINEAS: the workflow executor (core/orchestrator.py), the plugin base  *)
(* classes (plugins/__init__.py) and the result aggregator                 *)
(* (core/result_aggregator.py), as state machines.                         *)
(*                                                                         *)
(* Python values are modelled with their type, because the code branches   *)
(* on isinstance: a str is [t |-> "str", v |-> <characters>], a dict is    *)
(* [t |-> "dict", v |-> <function from keys to values>], a list is         *)
(* [t |-> "list", v |-> <sequence>].  The text of a scalar finding is a    *)
(* sequence of characters, so that lower() and strip() are computed.       *)
(***************************************************************************)
EXTENDS Integers, Sequences, FiniteSets, TLC

VARIABLES
    \* ---- ResultAggregator (core/result_aggregator.py) ----
    held,           \* the per-collector result objects the caller holds (the runs' 'plugins' items)
    raw_results,    \* self.raw_results: <<[plugin, result]>>, result a reference into held
    aggregated,     \* self.aggregated
    sources,        \* self.sources (defaultdict(list)): key -> list of plugin names
    report,         \* the last dict returned by get_aggregated_results
    \* ---- PhineasOrchestrator (core/orchestrator.py) ----
    config,         \* self.config
    registry,       \* self.plugins: plugin name -> plugin class
    pc,             \* where execute_workflow is: "idle", "running", "sealed"
    steps,          \* workflow['steps'] of the call in progress
    step_index,     \* number of steps of the for loop already done
    plugins,        \* results['plugins']: an insertion-ordered dict, <<[name, result]>>
    summary,        \* results['summary']
    invoked,        \* the collector invocations made so far, in order
    now,            \* the wall clock
    start_time,     \* self.start_time
    end_time,       \* self.end_time
    \* ---- coroutines that feed one aggregator ----
    tasks           \* where each task is; task t holds the result object held[t]

aggVars == <<held, raw_results, aggregated, sources, report>>
orchVars == <<config, registry, pc, steps, step_index, plugins, summary, invoked, now, start_time, end_time>>
vars == <<held, raw_results, aggregated, sources, report,
          config, registry, pc, steps, step_index, plugins, summary, invoked, now,
          start_time, end_time, tasks>>

None == "None"

\* self.start_time and self.end_time: None, or datetime.now() when assigned
NoTime == [set |-> FALSE]
Time(t) == [set |-> TRUE, at |-> t]

\* ------------------------------------------------------------------------
\* Python values
\* ------------------------------------------------------------------------
Str(s) == [t |-> "str", v |-> s]
Dict(d) == [t |-> "dict", v |-> d]
List(l) == [t |-> "list", v |-> l]

IsStr(x) == x.t = "str"
IsDict(x) == x.t = "dict"
IsList(x) == x.t = "list"

\* d.get(key, default) of a dict given as a function
Get(d, key, default) == IF key \in DOMAIN d THEN d[key] ELSE default

\* d[key] = value of a dict given as a function
DictSet(d, key, value) ==
    [k \in DOMAIN d \cup {key} |-> IF k = key THEN value ELSE d[k]]

Range(s) == {s[i] : i \in DOMAIN s}

\* ------------------------------------------------------------------------
\* str.lower(), str.strip() and the order of sorted() on characters
\* ------------------------------------------------------------------------
LowerChar(c) == CASE c = "A" -> "a"
                  [] c = "B" -> "b"
                  [] OTHER -> c

Lower(s) == [i \in 1..Len(s) |-> LowerChar(s[i])]

IsSpace(c) == c = " "

RECURSIVE LStrip(_)
LStrip(s) == IF s # <<>> /\ IsSpace(Head(s)) THEN LStrip(Tail(s)) ELSE s

RECURSIVE RStrip(_)
RStrip(s) == IF s # <<>> /\ IsSpace(s[Len(s)])
             THEN RStrip(SubSeq(s, 1, Len(s) - 1)) ELSE s

Strip(s) == RStrip(LStrip(s))

\* ord(c)
Ord(c) == CASE c = " " -> 32
            [] c = "A" -> 65
            [] c = "B" -> 66
            [] c = "a" -> 97
            [] c = "b" -> 98

\* s < t for two str, as sorted() compares them
RECURSIVE StrLess(_, _)
StrLess(s, t) ==
    IF t = <<>> THEN FALSE
    ELSE IF s = <<>> THEN TRUE
    ELSE IF Ord(Head(s)) # Ord(Head(t)) THEN Ord(Head(s)) < Ord(Head(t))
    ELSE StrLess(Tail(s), Tail(t))

\* sorted(list(S)) of a set of str
RECURSIVE Sorted(_)
Sorted(S) ==
    IF S = {} THEN <<>>
    ELSE LET least == CHOOSE x \in S : \A y \in S \ {x} : StrLess(x, y)
         IN <<least>> \o Sorted(S \ {least})

\* ------------------------------------------------------------------------
\* ResultAggregator
\* ------------------------------------------------------------------------
EmptyDict == [k \in {} |-> None]

Unknown == <<"u", "n", "k", "n", "o", "w", "n">>

ScalarKinds == <<"emails", "usernames", "domains", "subdomains", "phone_numbers", "urls">>

ScalarKindSet == Range(ScalarKinds)

\* __init__: the empty working state
EmptyAggregated ==
    [emails |-> {}, usernames |-> {}, domains |-> {}, subdomains |-> {},
     phone_numbers |-> {}, urls |-> {},
     social_profiles |-> <<>>, breaches |-> <<>>, accounts |-> <<>>,
     metadata |-> EmptyDict]

\* findings[kind] if isinstance(findings[kind], list) else [findings[kind]]
AsList(x) == IF IsList(x) THEN x.v ELSE <<x>>

\* Normalize with the username block adding the value as reported
NormalizeUsernameUntrimmed(kind, value) ==
    CASE kind = "emails" -> Strip(Lower(value))
      [] kind = "usernames" -> value
      [] kind = "domains" -> Strip(Lower(value))
      [] kind = "subdomains" -> Strip(Lower(value))
      [] kind = "phone_numbers" -> Strip(value)
      [] kind = "urls" -> Strip(value)

\* the value put into self.aggregated[kind] for a reported str
Normalize(kind, value) ==
    CASE kind = "emails" -> Strip(Lower(value))
      [] kind = "usernames" -> Strip(value)
      [] kind = "domains" -> Strip(Lower(value))
      [] kind = "subdomains" -> Strip(Lower(value))
      [] kind = "phone_numbers" -> Strip(value)
      [] kind = "urls" -> Strip(value)

\* the literal before the colon in self.sources[f'<prefix>:{value}']
SourcePrefix(kind) ==
    CASE kind = "emails" -> "email"
      [] kind = "usernames" -> "username"
      [] kind = "domains" -> "domain"
      [] kind = "subdomains" -> "subdomain"
      [] kind = "phone_numbers" -> "phone"

\* f'<prefix>:{value}'.  No prefix holds a colon, so the formatted key is
\* one-to-one with the pair <<prefix, value>>.
SourceKey(kind, value) == <<SourcePrefix(kind), value>>

\* self.sources[key] = [plugin_name]: the list replaced, not appended to
SourcesReplace(src, key, plugin_name) == DictSet(src, key, <<plugin_name>>)

\* self.sources[key].append(plugin_name) on a defaultdict(list)
SourcesAppend(src, key, plugin_name) ==
    IF key \in DOMAIN src
    THEN [src EXCEPT ![key] = Append(@, plugin_name)]
    ELSE DictSet(src, key, <<plugin_name>>)

\* the for loop over one scalar kind; st = [aggregated, sources]
RECURSIVE ScalarLoop(_, _, _, _)
ScalarLoop(st, kind, values, plugin_name) ==
    IF values = <<>> THEN st
    ELSE LET value == Head(values).v
             agg == [st.aggregated EXCEPT ![kind] = @ \cup {Normalize(kind, value)}]
             src == IF kind = "urls" THEN st.sources
                    ELSE SourcesAppend(st.sources, SourceKey(kind, value), plugin_name)
         IN ScalarLoop([aggregated |-> agg, sources |-> src], kind, Tail(values), plugin_name)

\* the six scalar blocks of add_result, in the order of the code
RECURSIVE AddScalars(_, _, _, _)
AddScalars(st, kinds, findings, plugin_name) ==
    IF kinds = <<>> THEN st
    ELSE LET kind == Head(kinds)
             next == IF kind \in DOMAIN findings
                     THEN ScalarLoop(st, kind, AsList(findings[kind]), plugin_name)
                     ELSE st
         IN AddScalars(next, Tail(kinds), findings, plugin_name)

\* record['source'] = plugin_name, on the record object itself
Stamp(record, plugin_name) == Dict(DictSet(record.v, "source", plugin_name))

\* the records appended to self.aggregated['social_profiles'] (or 'breaches')
RECURSIVE DictsOf(_, _)
DictsOf(items, plugin_name) ==
    IF items = <<>> THEN <<>>
    ELSE IF IsDict(Head(items))
         THEN <<Stamp(Head(items), plugin_name).v>> \o DictsOf(Tail(items), plugin_name)
         ELSE DictsOf(Tail(items), plugin_name)

\* the records appended to self.aggregated['accounts']
RECURSIVE AccountsOf(_, _)
AccountsOf(items, plugin_name) ==
    IF items = <<>> THEN <<>>
    ELSE LET account == Head(items)
             rest == AccountsOf(Tail(items), plugin_name)
         IN IF IsDict(account) THEN <<Stamp(account, plugin_name).v>> \o rest
            ELSE IF IsStr(account)
                 THEN <<[platform |-> Unknown, account |-> account.v,
                         source |-> plugin_name]>> \o rest
                 ELSE rest

\* the three structured blocks of add_result
AddStructured(agg, findings, plugin_name) ==
    LET profiles == IF "social_profiles" \in DOMAIN findings
                    THEN DictsOf(AsList(findings.social_profiles), plugin_name) ELSE <<>>
        accounts == IF "accounts" \in DOMAIN findings
                    THEN AccountsOf(AsList(findings.accounts), plugin_name) ELSE <<>>
        breaches == IF "breaches" \in DOMAIN findings
                    THEN DictsOf(AsList(findings.breaches), plugin_name) ELSE <<>>
    IN [agg EXCEPT !.social_profiles = @ \o profiles,
                   !.accounts = @ \o accounts,
                   !.breaches = @ \o breaches]

\* what add_result leaves in a finding value of a structured kind: every dict
\* in it carries the source
StampValue(value, plugin_name) ==
    IF IsList(value)
    THEN List([i \in 1..Len(value.v) |->
                  IF IsDict(value.v[i]) THEN Stamp(value.v[i], plugin_name)
                  ELSE value.v[i]])
    ELSE IF IsDict(value) THEN Stamp(value, plugin_name) ELSE value

StructuredKinds == {"social_profiles", "accounts", "breaches"}

\* the caller's result object after add_result(plugin_name, result)
StampResult(result, plugin_name) ==
    IF "findings" \notin DOMAIN result THEN result
    ELSE [result EXCEPT !["findings"] =
            [k \in DOMAIN @ |-> IF k \in StructuredKinds
                                THEN StampValue(@[k], plugin_name) ELSE @[k]]]

\* add_result as a function of the working state st = [aggregated, sources]
AddResultTo(st, plugin_name, result) ==
    LET findings == Get(result, "findings", EmptyDict)
        scalars == AddScalars(st, ScalarKinds, findings, plugin_name)
    IN [aggregated |-> AddStructured(scalars.aggregated, findings, plugin_name),
        sources |-> scalars.sources]

\* the profile key with an empty platform component when there is no platform
ProfileKeyWithoutDefault(profile) ==
    Get(profile, "platform", <<>>) \o <<":">>
        \o Get(profile, "url", Get(profile, "username", <<>>))

\* f"{profile.get('platform', 'unknown')}:{profile.get('url', profile.get('username', ''))}"
ProfileKey(profile) ==
    Get(profile, "platform", Unknown) \o <<":">>
        \o Get(profile, "url", Get(profile, "username", <<>>))

\* f"{account.get('platform', 'unknown')}:{account.get('account', account.get('email', ''))}"
AccountKey(account) ==
    Get(account, "platform", Unknown) \o <<":">>
        \o Get(account, "account", Get(account, "email", <<>>))

\* the loop of _deduplicate_profiles, from position i, with the keys seen so far
RECURSIVE DeduplicateProfilesFrom(_, _, _)
DeduplicateProfilesFrom(profiles, i, seen) ==
    IF i > Len(profiles) THEN <<>>
    ELSE LET key == ProfileKey(profiles[i])
         IN IF key \notin seen
            THEN <<profiles[i]>> \o DeduplicateProfilesFrom(profiles, i + 1, seen \cup {key})
            ELSE DeduplicateProfilesFrom(profiles, i + 1, seen)

DeduplicateProfiles(profiles) == DeduplicateProfilesFrom(profiles, 1, {})

\* the loop of _deduplicate_accounts
RECURSIVE DeduplicateAccountsFrom(_, _, _)
DeduplicateAccountsFrom(accounts, i, seen) ==
    IF i > Len(accounts) THEN <<>>
    ELSE LET key == AccountKey(accounts[i])
         IN IF key \notin seen
            THEN <<accounts[i]>> \o DeduplicateAccountsFrom(accounts, i + 1, seen \cup {key})
            ELSE DeduplicateAccountsFrom(accounts, i + 1, seen)

DeduplicateAccounts(accounts) == DeduplicateAccountsFrom(accounts, 1, {})

\* SourceCount counting every mention: len(sources)
SourceCountOfMentions(names) == Len(names)

\* source_count = len(set(sources))
SourceCount(names) == Cardinality(Range(names))

\* the three branches of _calculate_confidence
ConfidenceOf(source_count) ==
    IF source_count >= 3 THEN 100
    ELSE IF source_count = 2 THEN 75
    ELSE 50

\* _calculate_confidence over a sources dict
CalculateConfidence(src) == [key \in DOMAIN src |-> ConfidenceOf(SourceCount(src[key]))]

\* the 'summary' dict of get_aggregated_results
SummaryOf(agg) ==
    [total_emails |-> Cardinality(agg.emails),
     total_usernames |-> Cardinality(agg.usernames),
     total_domains |-> Cardinality(agg.domains),
     total_subdomains |-> Cardinality(agg.subdomains),
     total_phone_numbers |-> Cardinality(agg.phone_numbers),
     total_urls |-> Cardinality(agg.urls),
     total_social_profiles |-> Len(agg.social_profiles),
     total_accounts |-> Len(agg.accounts),
     total_breaches |-> Len(agg.breaches)]

\* the 'data' dict of get_aggregated_results
DataOf(agg) ==
    [emails |-> Sorted(agg.emails),
     usernames |-> Sorted(agg.usernames),
     domains |-> Sorted(agg.domains),
     subdomains |-> Sorted(agg.subdomains),
     phone_numbers |-> Sorted(agg.phone_numbers),
     urls |-> Sorted(agg.urls),
     social_profiles |-> DeduplicateProfiles(agg.social_profiles),
     accounts |-> DeduplicateAccounts(agg.accounts),
     breaches |-> agg.breaches]

\* the dict get_aggregated_results returns, as read at the moment it returns
ResultsOf(st) ==
    [summary |-> SummaryOf(st.aggregated),
     data |-> DataOf(st.aggregated),
     confidence |-> CalculateConfidence(st.sources),
     sources |-> st.sources]

\* get_aggregated_results() called in the current state
GetAggregatedResults == ResultsOf([aggregated |-> aggregated, sources |-> sources])

\* sep.join(names), as the sequence of its pieces
RECURSIVE Join(_, _)
Join(sep, names) ==
    IF names = <<>> THEN <<>>
    ELSE IF Len(names) = 1 THEN names
    ELSE <<Head(names), sep>> \o Join(sep, Tail(names))

\* export_csv(path, 'emails'): the rows written under the header, one for
\* each email of results['data']['emails']; the key is built from the email
\* as the data lists it
RECURSIVE EmailRowsFrom(_, _, _)
EmailRowsFrom(results, src, i) ==
    IF i > Len(results.data.emails) THEN <<>>
    ELSE LET email == results.data.emails[i]
             key == SourceKey("emails", email)
         IN <<[email |-> email,
               sources |-> Join(", ", Get(src, key, <<"unknown">>)),
               confidence |-> Get(results.confidence, key, 50)]>>
            \o EmailRowsFrom(results, src, i + 1)

ExportCsvEmails == EmailRowsFrom(GetAggregatedResults, sources, 1)

\* ------------------------------------------------------------------------
\* Bounds and the inputs drawn
\* ------------------------------------------------------------------------
\* results fed to one aggregator (scalar and structured runs)
MaxResults == 2

\* results fed to one aggregator in the corroboration runs
MaxCorroborations == 4

\* collector names, from plugin_map
PluginNames == {"sherlock", "holehe", "theharvester"}

TwoPlugins == {"holehe", "theharvester"}

\* one address in three spellings (case, surrounding whitespace) and another one
ScalarTexts == {<<"a">>, <<"A">>, <<" ", "a">>, <<"b">>}

\* a findings dict with one key
Finding(kind, value) == [k \in {kind} |-> value]

\* a collector result as _create_result('success', findings) builds it
SuccessResult(findings) == [status |-> "success", findings |-> findings]

ScalarFindings ==
    {Finding(kind, Str(text)) : kind \in ScalarKindSet, text \in ScalarTexts}
    \cup {Finding(kind, List(<<Str(<<"a">>), Str(<<"A", " ">>)>>)) : kind \in ScalarKindSet}

\* one address reported once or twice by a result, and another one reported twice
CorroborationFindings ==
    {Finding("emails", Str(<<"a">>)),
     Finding("emails", List(<<Str(<<"a">>), Str(<<"a">>)>>)),
     Finding("emails", List(<<Str(<<"b">>), Str(<<"b">>)>>))}

\* structured records: social profiles, accounts, breaches
ProfileRecords ==
    {[platform |-> <<"x">>, url |-> <<"u">>],
     [platform |-> <<"x">>, url |-> <<"u">>, username |-> <<"n">>],
     [platform |-> <<"x">>, email |-> <<"a">>],
     [platform |-> <<"x">>, email |-> <<"b">>],
     [url |-> <<"u">>]}

AccountRecords ==
    {[account |-> <<"g">>],
     [platform |-> <<"x">>, email |-> <<"a">>]}

BreachRecords == {[name |-> <<"B">>]}

StructuredFindings ==
    {Finding("social_profiles", List(<<Dict(r)>>)) : r \in ProfileRecords}
    \cup {Finding("social_profiles", Dict([platform |-> <<"x">>, url |-> <<"u">>]))}
    \cup {Finding("accounts", List(<<Dict(r)>>)) : r \in AccountRecords}
    \cup {Finding("accounts", List(<<Str(<<"g">>)>>))}
    \cup {Finding("breaches", List(<<Dict(r)>>)) : r \in BreachRecords}
    \cup {Finding("breaches", List(<<Dict([name |-> <<"B">>]), Dict([name |-> <<"B">>])>>))}

\* ------------------------------------------------------------------------
\* ResultAggregator: the operations
\* ------------------------------------------------------------------------
NoReport == [returned |-> FALSE]

\* The caller receives a collector's result object of a run and holds it
\* (result['plugins'] of the run kept in results['emails'][email]).
Collect(plugin_name, result, limit) ==
    /\ Len(held) < limit
    /\ held' = Append(held, [plugin |-> plugin_name, result |-> result])
    /\ UNCHANGED <<raw_results, aggregated, sources, report>>
    /\ UNCHANGED orchVars
    /\ UNCHANGED tasks

\* add_result(plugin_name, plugin_result) on the next held result, in items()
\* order.  Each result object is passed once, so the records appended to the
\* working lists, which are the caller's dict objects, are written once.
AddResult ==
    /\ Len(raw_results) < Len(held)
    /\ LET i == Len(raw_results) + 1
           plugin_name == held[i].plugin
           result == held[i].result
           st == AddResultTo([aggregated |-> aggregated, sources |-> sources],
                             plugin_name, result)
       IN /\ raw_results' = Append(raw_results, [plugin |-> plugin_name, result |-> i])
          /\ aggregated' = st.aggregated
          /\ sources' = st.sources
          /\ held' = [held EXCEPT ![i].result = StampResult(result, plugin_name)]
    /\ UNCHANGED report
    /\ UNCHANGED orchVars
    /\ UNCHANGED tasks

\* get_aggregated_results(): the dict handed to the caller.  Its summary, the
\* sorted and the deduplicated lists and the confidence dict are new objects;
\* data['breaches'] is the working list itself and the values of 'sources' are
\* the working lists themselves, so the dict holds them by reference.
GetAggregatedResultsCall ==
    /\ LET results == GetAggregatedResults
       IN report' = [returned |-> TRUE,
                     summary |-> results.summary,
                     data |-> [k \in DOMAIN results.data \ {"breaches"} |-> results.data[k]],
                     confidence |-> results.confidence,
                     source_keys |-> DOMAIN results.sources]
    /\ UNCHANGED <<held, raw_results, aggregated, sources>>
    /\ UNCHANGED orchVars
    /\ UNCHANGED tasks

\* the returned dict as its holder reads it now
ReportRead ==
    [summary |-> report.summary,
     data |-> [k \in DOMAIN report.data \cup {"breaches"} |->
                 IF k = "breaches" THEN aggregated.breaches ELSE report.data[k]],
     confidence |-> report.confidence,
     sources |-> [key \in report.source_keys |-> sources[key]]]

\* _default_config(); output_dir and enabled_plugins are left out
DefaultConfig ==
    [concurrent_scans |-> 5, timeout |-> 300, retry_failed |-> TRUE, max_retries |-> 2,
     api_keys |-> EmptyDict]

\* ------------------------------------------------------------------------
\* Specifications
\* ------------------------------------------------------------------------
Init ==
    /\ held = <<>>
    /\ raw_results = <<>>
    /\ aggregated = EmptyAggregated
    /\ sources = EmptyDict
    /\ report = NoReport
    /\ config = DefaultConfig
    /\ registry = EmptyDict
    /\ pc = "idle"
    /\ steps = <<>>
    /\ step_index = 0
    /\ plugins = <<>>
    /\ summary = [generated |-> FALSE, raised |-> FALSE]
    /\ invoked = <<>>
    /\ now = 0
    /\ start_time = NoTime
    /\ end_time = NoTime
    /\ tasks = <<>>

CollectScalar ==
    \E plugin_name \in TwoPlugins, findings \in ScalarFindings :
        Collect(plugin_name, SuccessResult(findings), MaxResults)

CollectCorroboration ==
    \E plugin_name \in PluginNames, findings \in CorroborationFindings :
        Collect(plugin_name, SuccessResult(findings), MaxCorroborations)

CollectStructured ==
    \E plugin_name \in TwoPlugins, findings \in StructuredFindings :
        Collect(plugin_name, SuccessResult(findings), MaxResults)

NextScalar == CollectScalar \/ AddResult

NextCorroboration == CollectCorroboration \/ AddResult

NextStructured == CollectStructured \/ AddResult \/ GetAggregatedResultsCall

\* scalar findings fed between calls of get_aggregated_results
IndexFindings ==
    {Finding("emails", Str(<<"a">>)),
     Finding("emails", List(<<Str(<<"a">>), Str(<<"A", " ">>)>>)),
     Finding("usernames", Str(<<"a">>)),
     Finding("urls", Str(<<"a">>))}

CollectIndex ==
    \E plugin_name \in TwoPlugins, findings \in IndexFindings :
        Collect(plugin_name, SuccessResult(findings), MaxResults)

NextIndex == CollectIndex \/ AddResult \/ GetAggregatedResultsCall

SpecScalar == Init /\ [][NextScalar]_vars

SpecCorroboration == Init /\ [][NextCorroboration]_vars

SpecStructured == Init /\ [][NextStructured]_vars

SpecIndex == Init /\ [][NextIndex]_vars

\* ------------------------------------------------------------------------
\* Plugins (plugins/__init__.py) and the registry
\* ------------------------------------------------------------------------
\* get_timeout(): self.config.get('timeout', 300)
DefaultTimeout == 300

\* str(e) of an exception, or an error text with what it names
Error(text, detail) == [text |-> text, detail |-> detail]

\* error=None
NoError == Error("", "")

\* _create_result(status, findings, error), without the keys that only
\* describe the call (plugin, target, the times, metadata)
CreateResult(status, findings, error) ==
    IF error = NoError THEN [status |-> status, findings |-> findings]
    ELSE [status |-> status, findings |-> findings, error |-> error]

\* the names _import_plugin knows
PluginMap ==
    {"sherlock", "holehe", "theharvester", "phoneinfoga", "sublist3r", "subfinder",
     "shodan", "haveibeenpwned", "ghunt", "maigret", "blackbird", "amass", "wayback",
     "email_validator"}

\* the Plugin classes of the plugin modules that exist, by their base class;
\* "HibpPlugin" is the APIPlugin of plugins/breach/hibp_plugin.py and
\* "HolehePlugin" the PythonPlugin of plugins/email/holehe_plugin.py
ShippedPlugins ==
    [sherlock |-> "CommandLinePlugin", holehe |-> "HolehePlugin",
     theharvester |-> "CommandLinePlugin", sublist3r |-> "CommandLinePlugin",
     haveibeenpwned |-> "HibpPlugin", wayback |-> "PythonPlugin"]

\* _import_plugin(plugin_name): the class, or the ImportError
ImportPlugin(plugin_name) ==
    IF plugin_name \notin PluginMap
    THEN [ok |-> FALSE, error |-> Error("Unknown plugin", plugin_name)]
    ELSE IF plugin_name \notin DOMAIN ShippedPlugins
         THEN [ok |-> FALSE, error |-> Error("No module named", plugin_name)]
         ELSE [ok |-> TRUE, class |-> ShippedPlugins[plugin_name]]

GetTimeout(plugin_config) == Get(plugin_config, "timeout", DefaultTimeout)

\* get_api_key_name() of an API plugin class
ApiKeyName(class) == IF class = "HibpPlugin" THEN "haveibeenpwned" ELSE "custom"

\* CommandLinePlugin.run() with execute_command(command, timeout): what the
\* tool does is work = [outcome, findings, duration]
CommandLineRun(plugin_config, work) ==
    IF work.outcome = "fault"
    THEN [raised |-> FALSE, elapsed |-> 0,
          result |-> CreateResult("failed", EmptyDict, Error("fault", ""))]
    ELSE IF work.duration > GetTimeout(plugin_config)
    THEN [raised |-> FALSE, elapsed |-> GetTimeout(plugin_config),
          result |-> CreateResult("failed", EmptyDict,
                                  Error("Command failed", "Command timeout"))]
    ELSE IF work.outcome = "exit_nonzero"
    THEN [raised |-> FALSE, elapsed |-> work.duration,
          result |-> CreateResult("failed", EmptyDict, Error("Command failed", "stderr"))]
    ELSE [raised |-> FALSE, elapsed |-> work.duration,
          result |-> CreateResult("success", work.findings, NoError)]

\* PythonPlugin.run(): await self.execute()
PythonRun(plugin_config, work) ==
    IF work.outcome = "fault"
    THEN [raised |-> FALSE, elapsed |-> work.duration,
          result |-> CreateResult("failed", EmptyDict, Error("fault", ""))]
    ELSE [raised |-> FALSE, elapsed |-> work.duration,
          result |-> CreateResult("success", work.findings, NoError)]

\* the Plugin of holehe_plugin.py: execute() keeps a fault of the library
\* call as findings['error'] and returns the findings
HolehePluginRun(plugin_config, work) ==
    PythonRun(plugin_config,
              [work EXCEPT !.outcome = "ok",
                           !.findings = IF work.outcome = "fault"
                                        THEN DictSet(work.findings, "error", Str(<<"fault">>))
                                        ELSE work.findings])

\* APIPlugin.run() going to execute_api_call without the key check
ApiRunWithoutKeyCheck(class, api_keys, work) ==
    IF class = "HibpPlugin"
    THEN [raised |-> FALSE, elapsed |-> work.duration,
          result |-> IF work.outcome = "fault"
                     THEN DictSet(work.findings, "error", Str(<<"fault">>))
                     ELSE work.findings]
    ELSE IF work.outcome = "fault"
    THEN [raised |-> TRUE, elapsed |-> work.duration, error |-> Error("fault", "")]
    ELSE [raised |-> FALSE, elapsed |-> work.duration,
          result |-> CreateResult("success", work.findings, NoError)]

\* APIPlugin.run(): the key check, then whatever execute_api_call returns or
\* raises.  The one of hibp_plugin.py returns its findings dict, with the
\* fault text under 'error' when its calls failed.
ApiRun(class, api_keys, work) ==
    IF ApiKeyName(class) \notin DOMAIN api_keys
    THEN [raised |-> FALSE, elapsed |-> 0,
          result |-> CreateResult("failed", EmptyDict,
                                  Error("API key not configured for", ApiKeyName(class)))]
    ELSE IF class = "HibpPlugin"
    THEN [raised |-> FALSE, elapsed |-> work.duration,
          result |-> IF work.outcome = "fault"
                     THEN DictSet(work.findings, "error", Str(<<"fault">>))
                     ELSE work.findings]
    ELSE IF work.outcome = "fault"
    THEN [raised |-> TRUE, elapsed |-> work.duration, error |-> Error("fault", "")]
    ELSE [raised |-> FALSE, elapsed |-> work.duration,
          result |-> CreateResult("success", work.findings, NoError)]

\* plugin = plugin_class(target, config, api_keys); await plugin.run()
PluginRun(class, plugin_config, api_keys, work) ==
    CASE class = "CommandLinePlugin" -> CommandLineRun(plugin_config, work)
      [] class = "PythonPlugin" -> PythonRun(plugin_config, work)
      [] class = "HolehePlugin" -> HolehePluginRun(plugin_config, work)
      [] OTHER -> ApiRun(class, api_keys, work)

\* ------------------------------------------------------------------------
\* PhineasOrchestrator
\* ------------------------------------------------------------------------
\* steps of one workflow
MaxSteps == 3

\* step if isinstance(step, str) else step.get('name')
StepName(step) == IF IsStr(step) THEN step.v ELSE Get(step.v, "name", None)

\* step if isinstance(step, dict) else {}
StepConfig(step) == IF IsDict(step) THEN step.v ELSE EmptyDict

\* the merge with the global section unpacked last, so that its values win
MergedConfigGlobalLast(cfg, plugin_name, step_config) ==
    LET global == Get(Get(cfg, "plugins", EmptyDict), plugin_name, EmptyDict)
    IN [k \in DOMAIN global \cup DOMAIN step_config |->
           IF k \in DOMAIN global THEN global[k] ELSE step_config[k]]

\* {**self.config.get('plugins', {}).get(plugin_name, {}), **config}
MergedConfig(cfg, plugin_name, step_config) ==
    LET global == Get(Get(cfg, "plugins", EmptyDict), plugin_name, EmptyDict)
    IN [k \in DOMAIN global \cup DOMAIN step_config |->
           IF k \in DOMAIN step_config THEN step_config[k] ELSE global[k]]

\* _run_plugin falling back to a PythonPlugin for a name it cannot find,
\* instead of raising ValueError
RunPluginWithFallback(reg, cfg, plugin_name, step_config, work) ==
    LET imported == ImportPlugin(plugin_name)
        found == plugin_name \in DOMAIN reg \/ imported.ok
        class == IF plugin_name \in DOMAIN reg THEN reg[plugin_name]
                 ELSE IF imported.ok THEN imported.class ELSE "PythonPlugin"
        plugin_config == MergedConfig(cfg, plugin_name, step_config)
        run == PluginRun(class, plugin_config, Get(cfg, "api_keys", EmptyDict), work)
        common == [invoked |-> TRUE, elapsed |-> run.elapsed,
                   registry |-> IF found THEN DictSet(reg, plugin_name, class) ELSE reg,
                   class |-> class, config |-> plugin_config]
    IN IF run.raised
       THEN [raised |-> TRUE, error |-> run.error] @@ common
       ELSE [raised |-> FALSE, result |-> run.result] @@ common

\* _run_plugin(plugin_name, target, config): the class is looked up or
\* imported, then constructed and run.  [raised, error] when it raises,
\* [result] when it returns; invoked tells whether plugin.run() was called.
RunPlugin(reg, cfg, plugin_name, step_config, work) ==
    LET imported == ImportPlugin(plugin_name)
    IN IF plugin_name \notin DOMAIN reg /\ ~imported.ok
       THEN [raised |-> TRUE, invoked |-> FALSE, elapsed |-> 0, registry |-> reg,
             error |-> Error("Plugin not found", plugin_name)]
       ELSE LET class == IF plugin_name \in DOMAIN reg THEN reg[plugin_name]
                         ELSE imported.class
                plugin_config == MergedConfig(cfg, plugin_name, step_config)
                run == PluginRun(class, plugin_config, Get(cfg, "api_keys", EmptyDict), work)
                common == [invoked |-> TRUE, elapsed |-> run.elapsed,
                           registry |-> DictSet(reg, plugin_name, class),
                           class |-> class, config |-> plugin_config]
            IN IF run.raised
               THEN [raised |-> TRUE, error |-> run.error] @@ common
               ELSE [raised |-> FALSE, result |-> run.result] @@ common

\* an except clause that notes the fault without the failed status and the
\* message
StepRecordUncaught(run) ==
    IF run.raised THEN [status |-> "error"] ELSE run.result

\* the entry results['plugins'][plugin_name] gets: the result returned (try),
\* or the failure built from the exception (except Exception)
StepRecord(run) ==
    IF run.raised THEN [status |-> "failed", error |-> run.error] ELSE run.result

\* a dict that puts a new key before the keys it holds
DictPutFirst(d, key, value) ==
    IF \E i \in DOMAIN d : d[i].name = key
    THEN [i \in DOMAIN d |-> IF d[i].name = key THEN [d[i] EXCEPT !.result = value]
                             ELSE d[i]]
    ELSE <<[name |-> key, result |-> value]>> \o d

\* d[key] = value on an insertion-ordered dict given as <<[name, result]>>
DictPut(d, key, value) ==
    IF \E i \in DOMAIN d : d[i].name = key
    THEN [i \in DOMAIN d |-> IF d[i].name = key THEN [d[i] EXCEPT !.result = value]
                             ELSE d[i]]
    ELSE Append(d, [name |-> key, result |-> value])

\* a test that also takes a result without a status for a success
IsSuccessOrUnlabelled(result) == Get(result, "status", "success") = "success"

\* plugin_result.get('status') == 'success'
IsSuccess(result) == Get(result, "status", None) = "success"

\* summary['findings'][key] after the loop over results['plugins'].items(),
\* from entry i on
RECURSIVE FindingsFrom(_, _, _)
FindingsFrom(d, i, key) ==
    IF i > Len(d) THEN <<>>
    ELSE LET findings == Get(d[i].result, "findings", EmptyDict)
             here == IF IsSuccess(d[i].result) /\ key \in DOMAIN findings
                     THEN AsList(findings[key]) ELSE <<>>
         IN here \o FindingsFrom(d, i + 1, key)

\* summary['findings']
SummaryFindings(d) ==
    LET keys == UNION {DOMAIN Get(d[i].result, "findings", EmptyDict) :
                          i \in {j \in DOMAIN d : IsSuccess(d[j].result)}}
    IN [key \in keys |-> FindingsFrom(d, 1, key)]

\* whether set(values) can be built: str is hashable, dict and list are not
Hashable(x) == IsStr(x)

\* the kinds _generate_summary counts with len(set(...))
CountedAsSet == {"emails", "usernames", "subdomains", "accounts"}

HighlightKinds == <<"emails", "usernames", "subdomains", "breaches", "accounts">>

\* the highlights, one per kind whose findings list is not empty; each stands
\* for the sentence with its number
RECURSIVE Highlights(_, _)
Highlights(findings, kinds) ==
    IF kinds = <<>> THEN <<>>
    ELSE LET kind == Head(kinds)
             rest == Highlights(findings, Tail(kinds))
         IN IF kind \in DOMAIN findings /\ findings[kind] # <<>>
            THEN <<[kind |-> kind,
                    count |-> IF kind \in CountedAsSet
                              THEN Cardinality(Range(findings[kind]))
                              ELSE Len(findings[kind])]>> \o rest
            ELSE rest

\* _generate_summary(results): the summary, or the TypeError of set()
GenerateSummary(d) ==
    LET findings == SummaryFindings(d)
        successful == Cardinality({i \in DOMAIN d : IsSuccess(d[i].result)})
        failed == Cardinality({i \in DOMAIN d : ~IsSuccess(d[i].result)})
    IN IF \E kind \in CountedAsSet \cap DOMAIN findings :
             \E x \in Range(findings[kind]) : ~Hashable(x)
       THEN [generated |-> FALSE, raised |-> TRUE]
       ELSE [generated |-> TRUE, raised |-> FALSE,
             total_plugins |-> Len(d),
             successful |-> successful,
             failed |-> failed,
             findings |-> findings,
             highlights |-> Highlights(findings, HighlightKinds)]

\* ---- the inputs drawn ----
\* a config file with keys and a per-plugin section, besides the default
CustomConfig ==
    [api_keys |-> [haveibeenpwned |-> "key", custom |-> "key"],
     plugins |-> [sherlock |-> [timeout |-> 2, sites_filter |-> "popular"],
                  holehe |-> [timeout |-> 2, disabled |-> FALSE]]]

Configs == {DefaultConfig, CustomConfig}

\* steps: bare names of a command-line and an API plugin, a name
\* _import_plugin does not know, and a Python plugin with the step's own config
StepChoices ==
    {Str("sherlock"), Dict([name |-> "holehe", timeout |-> 1]), Str("haveibeenpwned"),
     Str("custom")}

Workflows == UNION {[1..n -> StepChoices] : n \in 0..MaxSteps}

\* what a collector's own work does: it produces findings, fails or faults,
\* after a time
Works ==
    {[outcome |-> "ok", duration |-> 0, findings |-> Finding("emails", List(<<Str(<<"a">>)>>))],
     [outcome |-> "ok", duration |-> DefaultTimeout + 1,
      findings |-> Finding("usernames", Str(<<"A">>))],
     [outcome |-> "ok", duration |-> 0,
      findings |-> Finding("accounts", List(<<Dict([platform |-> <<"x">>, email |-> <<"a">>])>>))],
     [outcome |-> "fault", duration |-> 0, findings |-> Finding("emails", List(<<Str(<<"a">>)>>))],
     [outcome |-> "exit_nonzero", duration |-> 0, findings |-> EmptyDict]}

\* ---- the operations ----
\* register_plugin(plugin_name, plugin_class), before the workflow is run
RegisterPlugin(plugin_name, plugin_class) ==
    /\ pc = "idle"
    /\ registry' = DictSet(registry, plugin_name, plugin_class)
    /\ UNCHANGED <<config, pc, steps, step_index, plugins, summary, invoked, now,
                   start_time, end_time>>
    /\ UNCHANGED aggVars
    /\ UNCHANGED tasks

\* execute_workflow(workflow, target) up to the for loop
ExecuteWorkflow(workflow_steps) ==
    /\ pc = "idle"
    /\ pc' = "running"
    /\ steps' = workflow_steps
    /\ step_index' = 0
    /\ plugins' = <<>>
    /\ start_time' = Time(now)
    /\ UNCHANGED <<config, registry, summary, invoked, now, end_time>>
    /\ UNCHANGED aggVars
    /\ UNCHANGED tasks

\* a pass of the loop that runs a plugin that failed once more when the
\* configuration sets retry_failed
RunStepWithRetry(work) ==
    /\ pc = "running"
    /\ step_index < Len(steps)
    /\ LET step == steps[step_index + 1]
           plugin_name == StepName(step)
           run == RunPlugin(registry, config, plugin_name, StepConfig(step), work)
       IN /\ work.outcome = "exit_nonzero" => (run.invoked /\ run.class = "CommandLinePlugin")
          /\ plugins' = DictPut(plugins, plugin_name, StepRecord(run))
          /\ registry' = run.registry
          /\ now' = now + run.elapsed
          /\ invoked' =
                IF run.invoked
                THEN LET entry == [step |-> step_index + 1, name |-> plugin_name,
                                   class |-> run.class, config |-> run.config,
                                   work |-> work, started |-> now,
                                   elapsed |-> run.elapsed, raised |-> run.raised,
                                   result |-> IF run.raised THEN [error |-> run.error]
                                              ELSE run.result]
                     IN IF ~IsSuccess(StepRecord(run)) /\ Get(config, "retry_failed", FALSE)
                        THEN Append(Append(invoked, entry),
                                    [entry EXCEPT !.started = now + run.elapsed])
                        ELSE Append(invoked, entry)
                ELSE invoked
    /\ step_index' = step_index + 1
    /\ UNCHANGED <<config, pc, steps, summary, start_time, end_time>>
    /\ UNCHANGED aggVars
    /\ UNCHANGED tasks

\* one pass of the for loop: the step's plugin is run and its entry recorded
RunStep(work) ==
    /\ pc = "running"
    /\ step_index < Len(steps)
    /\ LET step == steps[step_index + 1]
           plugin_name == StepName(step)
           run == RunPlugin(registry, config, plugin_name, StepConfig(step), work)
       IN /\ work.outcome = "exit_nonzero" => (run.invoked /\ run.class = "CommandLinePlugin")
          /\ plugins' = DictPut(plugins, plugin_name, StepRecord(run))
          /\ registry' = run.registry
          /\ now' = now + run.elapsed
          /\ invoked' = IF run.invoked
                        THEN Append(invoked,
                                    [step |-> step_index + 1, name |-> plugin_name,
                                     class |-> run.class, config |-> run.config,
                                     work |-> work, started |-> now,
                                     elapsed |-> run.elapsed, raised |-> run.raised,
                                     result |-> IF run.raised THEN [error |-> run.error]
                                                ELSE run.result])
                        ELSE invoked
    /\ step_index' = step_index + 1
    /\ UNCHANGED <<config, pc, steps, summary, start_time, end_time>>
    /\ UNCHANGED aggVars
    /\ UNCHANGED tasks

\* the end time taken and the run sealed wherever the loop is
SealBeforeLoopEnds ==
    /\ pc = "running"
    /\ end_time' = Time(now)
    /\ summary' = GenerateSummary(plugins)
    /\ pc' = IF GenerateSummary(plugins).raised THEN "raised" ELSE "sealed"
    /\ UNCHANGED <<config, registry, steps, step_index, plugins, invoked, now, start_time>>
    /\ UNCHANGED aggVars
    /\ UNCHANGED tasks

\* after the loop: the end time, the summary, the run saved and returned; a
\* TypeError of _generate_summary goes to the caller instead
Seal ==
    /\ pc = "running"
    /\ step_index = Len(steps)
    /\ end_time' = Time(now)
    /\ summary' = GenerateSummary(plugins)
    /\ pc' = IF GenerateSummary(plugins).raised THEN "raised" ELSE "sealed"
    /\ UNCHANGED <<config, registry, steps, step_index, plugins, invoked, now, start_time>>
    /\ UNCHANGED aggVars
    /\ UNCHANGED tasks

InitWorkflow ==
    /\ held = <<>>
    /\ raw_results = <<>>
    /\ aggregated = EmptyAggregated
    /\ sources = EmptyDict
    /\ report = NoReport
    /\ config \in Configs
    /\ registry = EmptyDict
    /\ pc = "idle"
    /\ steps = <<>>
    /\ step_index = 0
    /\ plugins = <<>>
    /\ summary = [generated |-> FALSE, raised |-> FALSE]
    /\ invoked = <<>>
    /\ now = 0
    /\ start_time = NoTime
    /\ end_time = NoTime
    /\ tasks = <<>>

Register == RegisterPlugin("custom", "APIPlugin")

Execute == \E workflow_steps \in Workflows : ExecuteWorkflow(workflow_steps)

Step == \E work \in Works : RunStep(work)

NextWorkflow == Register \/ Execute \/ Step \/ Seal

SpecWorkflow == InitWorkflow /\ [][NextWorkflow]_vars

\* The works of the lifecycle runs: a collector returns after some time, with
\* findings that can or cannot be summarised, or faults
LifecycleWorks ==
    {work \in Works : work.outcome \in {"ok", "fault"}
                      /\ (work.outcome = "ok" => DOMAIN work.findings # {"emails"})}

StepLifecycle == \E work \in LifecycleWorks : RunStep(work)

NextLifecycle == Register \/ Execute \/ StepLifecycle \/ Seal

\* The loop is straight-line code awaited by the caller: as long as each
\* collector invocation returns or raises, the next pass of the loop, and
\* after the last one the lines that follow it, do run.
SpecLifecycle ==
    InitWorkflow /\ [][NextLifecycle]_vars /\ WF_vars(StepLifecycle) /\ WF_vars(Seal)

\* ------------------------------------------------------------------------
\* The run of a workflow, looked at from outside
\* ------------------------------------------------------------------------
\* the steps name distinct collectors
DistinctSteps ==
    \A i, j \in DOMAIN steps : i # j => StepName(steps[i]) # StepName(steps[j])

\* results['plugins'][plugin_name]
Recorded(plugin_name) ==
    LET i == CHOOSE j \in DOMAIN plugins : plugins[j].name = plugin_name
    IN plugins[i].result

IsRecorded(plugin_name) == \E i \in DOMAIN plugins : plugins[i].name = plugin_name

\* the collector of step i can be found: registered, or importable by name
Resolvable(i) ==
    StepName(steps[i]) \in DOMAIN registry \/ ImportPlugin(StepName(steps[i])).ok

\* the invocations whose plugin.run() raised, and those that returned success
RaisedRuns == {k \in DOMAIN invoked : invoked[k].raised}

SuccessRuns == {k \in DOMAIN invoked : ~invoked[k].raised /\ IsSuccess(invoked[k].result)}

\* every finding of a success run is in the summary's list of its kind
FindingsInSummary ==
    \A k \in SuccessRuns :
        \A key \in DOMAIN invoked[k].result.findings :
            /\ key \in DOMAIN summary.findings
            /\ Range(AsList(invoked[k].result.findings[key]))
                   \subseteq Range(summary.findings[key])

C2_OneOutcomePerStep ==
    pc = "sealed" =>
        /\ Len(plugins) = Len(steps)
        /\ summary.total_plugins = Len(steps)

\* ------------------------------------------------------------------------
\* C3: timeout enforcement.  An invocation of a collector of any kind
\* whose work does not finish within its configured bound (key timeout,
\* default 300) is ended at the bound and recorded as status failed with an
\* error that indicates a timeout, and the workflow goes on to the next step.
\* ------------------------------------------------------------------------
\* the invocation got as far as the collector's own work
WorkStarted(e) ==
    e.class \in {"CommandLinePlugin", "PythonPlugin", "HolehePlugin"}
    \/ ApiKeyName(e.class) \in DOMAIN Get(config, "api_keys", EmptyDict)

IndicatesTimeout(result) ==
    /\ "error" \in DOMAIN result
    /\ result.error.detail = "Command timeout"

C3_TimeoutEnforced ==
    \A k \in DOMAIN invoked :
        (WorkStarted(invoked[k]) /\ invoked[k].work.duration > GetTimeout(invoked[k].config)) =>
            /\ invoked[k].elapsed <= GetTimeout(invoked[k].config)
            /\ IsRecorded(invoked[k].name)
            /\ Get(Recorded(invoked[k].name), "status", None) = "failed"
            /\ IndicatesTimeout(Recorded(invoked[k].name))

\* ------------------------------------------------------------------------
\* What has been fed to the aggregator
\* ------------------------------------------------------------------------
\* the str texts a result reports under a kind
ReportedTexts(result, kind) ==
    LET findings == Get(result, "findings", EmptyDict)
    IN IF kind \in DOMAIN findings
       THEN {x.v : x \in {y \in Range(AsList(findings[kind])) : IsStr(y)}}
       ELSE {}

\* the texts of a kind in the results passed to add_result so far
FedTexts(kind) ==
    UNION {ReportedTexts(held[raw_results[i].result].result, kind) : i \in DOMAIN raw_results}

\* two spellings of one value: equal once lower-cased and trimmed
SameFolded(s, t) == Strip(Lower(s)) = Strip(Lower(t))

\* two spellings that differ in surrounding whitespace only
SameTrimmed(s, t) == Strip(s) = Strip(t)

\* ------------------------------------------------------------------------
\* C4: when two distinct collectors report one email address in spellings
\* that differ only in letter case or surrounding whitespace, then after
\* both add_result calls the emails set has exactly one element, the source
\* index entry keyed by the normalized address holds both collector names,
\* and the confidence of that key is 75.
\* ------------------------------------------------------------------------
C4_CaseVariantsCorroborate ==
    (/\ Len(raw_results) = 2
     /\ raw_results[1].plugin # raw_results[2].plugin
     /\ FedTexts("emails") # {}
     /\ \A s, t \in FedTexts("emails") : SameFolded(s, t)
     /\ \E s \in ReportedTexts(held[1].result, "emails"),
           t \in ReportedTexts(held[2].result, "emails") : s # t)
    => LET address == Strip(Lower(CHOOSE s \in FedTexts("emails") : TRUE))
           key == <<"email", address>>
       IN /\ Cardinality(aggregated.emails) = 1
          /\ key \in DOMAIN sources
          /\ {raw_results[1].plugin, raw_results[2].plugin} \subseteq Range(sources[key])
          /\ GetAggregatedResults.confidence[key] = 75

\* ------------------------------------------------------------------------
\* C6 as stated: for every scalar kind, the same finding added more than
\* once, in whatever letter case and surrounding whitespace, leaves that
\* kind's set with exactly one element.
\* ------------------------------------------------------------------------
C6_AnyKindFoldsCaseAndSpace ==
    \A kind \in ScalarKindSet :
        (FedTexts(kind) # {} /\ \A s, t \in FedTexts(kind) : SameFolded(s, t))
        => Cardinality(aggregated[kind]) = 1

\* the kinds whose values are compared without regard to letter case
CaseInsensitiveKinds == {"emails", "domains", "subdomains"}

\* ------------------------------------------------------------------------
\* C6 as amended: for emails, domains and subdomains, the same finding added
\* more than once, in whatever letter case and surrounding whitespace,
\* leaves the kind's set with exactly one element; for usernames, phone
\* numbers and urls this holds for spellings that differ in surrounding
\* whitespace only.
\* ------------------------------------------------------------------------
C6_IdempotentNormalization ==
    \A kind \in ScalarKindSet :
        (/\ FedTexts(kind) # {}
         /\ \A s, t \in FedTexts(kind) :
               IF kind \in CaseInsensitiveKinds THEN SameFolded(s, t) ELSE SameTrimmed(s, t))
        => Cardinality(aggregated[kind]) = 1

\* two results fed, with two spellings of one address and of one username,
\* and one element kept for each
C6_Witness ==
    /\ Len(raw_results) = 2
    /\ \E kind \in {"emails", "usernames"} :
          /\ Cardinality(FedTexts(kind)) = 2
          /\ \A s, t \in FedTexts(kind) :
                IF kind = "emails" THEN SameFolded(s, t) ELSE SameTrimmed(s, t)
          /\ Cardinality(aggregated[kind]) = 1

\* the number of distinct collector names the source index records for a key
DistinctCollectors(key) == Cardinality({sources[key][i] : i \in DOMAIN sources[key]})

\* ------------------------------------------------------------------------
\* C7: for every key of the source index, with n the number of distinct
\* collector names recorded for it, the confidence is exactly 100 when
\* n >= 3, 75 when n = 2 and 50 when n <= 1; so it is one of 50, 75, 100,
\* it is non-decreasing in n, and a collector recorded more than once for a
\* key counts once.
\* ------------------------------------------------------------------------
C7_ThreeTierConfidence ==
    LET confidence == GetAggregatedResults.confidence
    IN /\ DOMAIN confidence = DOMAIN sources
       /\ \A key \in DOMAIN sources :
             /\ DistinctCollectors(key) >= 3 => confidence[key] = 100
             /\ DistinctCollectors(key) = 2 => confidence[key] = 75
             /\ DistinctCollectors(key) <= 1 => confidence[key] = 50
             /\ confidence[key] \in {50, 75, 100}
       /\ \A k1, k2 \in DOMAIN sources :
             DistinctCollectors(k1) <= DistinctCollectors(k2)
             => confidence[k1] <= confidence[k2]

\* one key reported by three collectors, with confidence 100, and another
\* recorded twice for a single collector, with confidence 50
C7_Witness ==
    \E k1, k2 \in DOMAIN sources :
        /\ DistinctCollectors(k1) = 3
        /\ GetAggregatedResults.confidence[k1] = 100
        /\ Len(sources[k2]) = 2
        /\ DistinctCollectors(k2) = 1
        /\ GetAggregatedResults.confidence[k2] = 50

\* add_result on fresh working state for the held results taken in an order
RECURSIVE Replay(_, _)
Replay(st, order) ==
    IF order = <<>> THEN st
    ELSE Replay(AddResultTo(st, held[Head(order)].plugin, held[Head(order)].result),
                Tail(order))

FreshState == [aggregated |-> EmptyAggregated, sources |-> EmptyDict]

\* the orders in which the results passed so far can be fed
Orders ==
    LET n == Len(raw_results)
    IN {f \in [1..n -> 1..n] : \A i, j \in 1..n : f[i] = f[j] => i = j}

\* ------------------------------------------------------------------------
\* C5: feeding the same (collector, result) pairs to a fresh aggregator in
\* any other order gives the same data in get_aggregated_results: every
\* sorted scalar list and every structured list, the content of each kept
\* record included.
\* ------------------------------------------------------------------------
C5_OrderIndependence ==
    \A order \in Orders :
        DataOf(Replay(FreshState, order).aggregated) = GetAggregatedResults.data

\* ------------------------------------------------------------------------
\* C8: add_result leaves the result passed to it, and every record inside
\* its findings, as it was: the results the caller holds never change.
\* ------------------------------------------------------------------------
C8_ResultsNeverMutated ==
    [][\A i \in DOMAIN held : held'[i].result = held[i].result]_vars

\* the deduplication key of a structured record as the specification words it:
\* platform (or "unknown") : the first present of url, username, account, email
RecordKey(record) ==
    Get(record, "platform", Unknown) \o <<":">>
        \o Get(record, "url", Get(record, "username",
               Get(record, "account", Get(record, "email", <<>>))))

\* a list holds one record per key, and it is the first of `added` with that key
OnePerKeyKeepingFirst(list, added, Key(_)) ==
    /\ \A i, j \in DOMAIN list : Key(list[i]) = Key(list[j]) => i = j
    /\ \A i \in DOMAIN list :
          \E j \in DOMAIN added :
              /\ added[j] = list[i]
              /\ \A k \in 1..(j - 1) : Key(added[k]) # Key(list[i])

\* ------------------------------------------------------------------------
\* C9: for social profiles, accounts and breaches, the list in the data of
\* get_aggregated_results holds at most one record per deduplication key,
\* and the record kept for a key is the first one added with that key.
\* ------------------------------------------------------------------------
C9_StructuredDeduplication ==
    LET data == GetAggregatedResults.data
    IN /\ OnePerKeyKeepingFirst(data.social_profiles, aggregated.social_profiles, ProfileKey)
       /\ OnePerKeyKeepingFirst(data.accounts, aggregated.accounts, AccountKey)
       /\ OnePerKeyKeepingFirst(data.breaches, aggregated.breaches, RecordKey)

\* ------------------------------------------------------------------------
\* C10: in the dict get_aggregated_results returns, each total_<kind> is the
\* number of elements of that kind's list in data.
\* ------------------------------------------------------------------------
C10_SummaryCountsMatchData ==
    LET results == GetAggregatedResults
    IN /\ results.summary.total_emails = Len(results.data.emails)
       /\ results.summary.total_usernames = Len(results.data.usernames)
       /\ results.summary.total_domains = Len(results.data.domains)
       /\ results.summary.total_subdomains = Len(results.data.subdomains)
       /\ results.summary.total_phone_numbers = Len(results.data.phone_numbers)
       /\ results.summary.total_urls = Len(results.data.urls)
       /\ results.summary.total_social_profiles = Len(results.data.social_profiles)
       /\ results.summary.total_accounts = Len(results.data.accounts)
       /\ results.summary.total_breaches = Len(results.data.breaches)

\* ------------------------------------------------------------------------
\* C11: a dict returned by get_aggregated_results keeps the same summary,
\* data, confidence and sources content across every later step in which
\* it is not replaced by a new call, add_result calls included.
\* ------------------------------------------------------------------------
C11_ReportNeverMutated ==
    [][(report.returned /\ report' = report) => ReportRead' = ReportRead]_vars

\* ------------------------------------------------------------------------
\* C12: execute_workflow called with an empty step list (or a workflow
\* without a steps key, which reads as the empty list) is rejected before
\* any collector is invoked: no run of it is sealed or persisted.
\* ------------------------------------------------------------------------
C12_EmptyWorkflowRejected ==
    (pc # "idle" /\ steps = <<>>) => pc \notin {"sealed", "raised"}

\* ------------------------------------------------------------------------
\* C13: a step naming a collector that is neither registered nor
\* resolvable by name is recorded as a failed result carrying the "not
\* found" error, no collector is invoked for that step, and the loop goes
\* on: once it has ended every step has been passed and every later step
\* whose collector can be found was invoked.
\* ------------------------------------------------------------------------
\* str(e) of the ValueError of _run_plugin, which wraps the ImportError
NotFoundError(plugin_name) == Error("Plugin not found", plugin_name)

\* the for loop has ended
LoopEnded == pc \in {"sealed", "raised"}

C13_UnknownCollectorLocal ==
    \A i \in 1..step_index :
        ~Resolvable(i) =>
            /\ IsRecorded(StepName(steps[i]))
            /\ Recorded(StepName(steps[i]))
                 = [status |-> "failed", error |-> NotFoundError(StepName(steps[i]))]
            /\ \A k \in DOMAIN invoked : invoked[k].step # i
            /\ LoopEnded =>
                 /\ step_index = Len(steps)
                 /\ \A j \in (i + 1)..Len(steps) :
                       Resolvable(j) => \E k \in DOMAIN invoked : invoked[k].step = j

\* a finished run whose first step names an unknown collector and whose two
\* later steps were run, one of them with success
C13_Witness ==
    /\ pc = "sealed"
    /\ Len(steps) = 3
    /\ ~Resolvable(1)
    /\ Resolvable(2) /\ Resolvable(3)
    /\ {invoked[k].step : k \in DOMAIN invoked} = {2, 3}
    /\ SuccessRuns # {}

\* ------------------------------------------------------------------------
\* Which step an entry of results['plugins'] comes from
\* ------------------------------------------------------------------------
\* the steps of the loop passed so far that name plugin_name
StepsNaming(plugin_name) == {i \in 1..step_index : StepName(steps[i]) = plugin_name}

\* the step whose outcome the entry under plugin_name holds: the last one
ProducingStep(plugin_name) ==
    CHOOSE i \in StepsNaming(plugin_name) : \A j \in StepsNaming(plugin_name) : j <= i

\* the step that declares plugin_name first
DeclaringStep(plugin_name) ==
    CHOOSE i \in StepsNaming(plugin_name) : \A j \in StepsNaming(plugin_name) : i <= j

\* what step i ended with: the result returned, the fault raised by the
\* collector, or the "not found" error when no collector was invoked
StepOutcome(i) ==
    IF \E k \in DOMAIN invoked : invoked[k].step = i
    THEN LET k == CHOOSE k \in DOMAIN invoked : invoked[k].step = i
         IN IF invoked[k].raised
            THEN [status |-> "failed", error |-> invoked[k].result.error]
            ELSE invoked[k].result
    ELSE [status |-> "failed", error |-> NotFoundError(StepName(steps[i]))]

EveryStepRecorded ==
    /\ step_index = Len(steps)
    /\ \A i \in DOMAIN steps : IsRecorded(StepName(steps[i]))

C15_RunLifecycle ==
    /\ [](end_time.set =>
            /\ EveryStepRecorded
            /\ start_time.set
            /\ end_time.at >= start_time.at)
    /\ [][end_time' # end_time => (~end_time.set /\ EveryStepRecorded)]_vars
    /\ (pc = "running" ~> end_time.set)

\* a run of three steps whose end time is fixed, later than its start
C15_Witness ==
    /\ end_time.set
    /\ Len(steps) = 3
    /\ Len(plugins) = 3
    /\ end_time.at > start_time.at

\* ------------------------------------------------------------------------
\* C16: no value returned by a collector makes execute_workflow raise
\* after the steps have run: once the loop has ended the call does not
\* raise and a summary is produced.
\* ------------------------------------------------------------------------
C16_NoRaiseAfterSteps ==
    LoopEnded => (pc # "raised" /\ summary.generated /\ ~summary.raised)

\* ------------------------------------------------------------------------
\* C17: for every scalar kind and every value a collector reports in a
\* result passed to add_result, the source index afterwards has an entry
\* for that kind and value (as reported or as stored) whose collector list
\* contains the collector, and confidence has a score for that entry.
\* ------------------------------------------------------------------------
\* the prefixes under which an entry would stand for a kind
IndexPrefixes(kind) ==
    IF kind = "urls" THEN {"url", "urls"} ELSE {SourcePrefix(kind), kind}

\* the keys of the source index that stand for a value of a kind
IndexKeys(kind, text) ==
    {key \in DOMAIN sources :
        key[1] \in IndexPrefixes(kind) /\ key[2] \in {text, Normalize(kind, text)}}

C17_SourceIndexCoverage ==
    \A i \in DOMAIN raw_results :
        \A kind \in ScalarKindSet :
            \A text \in ReportedTexts(held[raw_results[i].result].result, kind) :
                \E key \in IndexKeys(kind, text) :
                    /\ raw_results[i].plugin \in Range(sources[key])
                    /\ key \in DOMAIN GetAggregatedResults.confidence

\* ------------------------------------------------------------------------
\* C18: across add_result and get_aggregated_results calls on one
\* aggregator, no key is ever removed from the source index and the set of
\* collector names under a key never loses a member.
\* ------------------------------------------------------------------------
C18_SourceIndexOnlyGrows ==
    [][\A key \in DOMAIN sources :
          /\ key \in DOMAIN sources'
          /\ Range(sources[key]) \subseteq Range(sources'[key])]_vars

\* the index grew by a key and by a second collector under a key after a
\* call of get_aggregated_results
C18_Witness ==
    /\ report.returned
    /\ report.source_keys # {}
    /\ report.source_keys # DOMAIN sources
    /\ \E key \in report.source_keys : Cardinality(Range(sources[key])) = 2

\* ------------------------------------------------------------------------
\* C19: run() of a collector built on CommandLinePlugin, APIPlugin or
\* PythonPlugin never raises and returns a result whose status is success
\* or failed; a fault inside the collector's work gives status failed with
\* an error message.
\* ------------------------------------------------------------------------
C19_RunNeverRaises ==
    \A k \in DOMAIN invoked :
        /\ ~invoked[k].raised
        /\ Get(invoked[k].result, "status", None) \in {"success", "failed"}
        /\ (WorkStarted(invoked[k]) /\ invoked[k].work.outcome = "fault") =>
              /\ invoked[k].result.status = "failed"
              /\ "error" \in DOMAIN invoked[k].result

\* ------------------------------------------------------------------------
\* C20: when the key an API collector declares is absent from the
\* credentials, run() does not raise and returns at once a result with
\* status failed and an error naming the missing key; execute_api_call is
\* not called, so nothing of the collector's work (its time, its findings,
\* its fault) shows.
\* ------------------------------------------------------------------------
ApiClasses == {"APIPlugin", "HibpPlugin"}

\* an invocation of an API collector whose key is not configured
MissingCredential(e) ==
    /\ e.class \in ApiClasses
    /\ ApiKeyName(e.class) \notin DOMAIN Get(config, "api_keys", EmptyDict)

C20_MissingCredential ==
    \A k \in DOMAIN invoked :
        MissingCredential(invoked[k]) =>
            /\ ~invoked[k].raised
            /\ invoked[k].elapsed = 0
            /\ invoked[k].result
                 = [status |-> "failed", findings |-> EmptyDict,
                    error |-> Error("API key not configured for",
                                    ApiKeyName(invoked[k].class))]

\* API collectors without their key whose work would have taken time and
\* produced findings, and whose work would have faulted
C20_Witness ==
    /\ \E k \in DOMAIN invoked :
          /\ MissingCredential(invoked[k])
          /\ invoked[k].work.outcome = "ok"
          /\ invoked[k].work.duration > 0
          /\ invoked[k].work.findings # EmptyDict
    /\ \E k \in DOMAIN invoked :
          /\ MissingCredential(invoked[k])
          /\ invoked[k].class = "APIPlugin"
          /\ invoked[k].work.outcome = "fault"

\* ------------------------------------------------------------------------
\* C21: every scalar value stored by add_result is the reported value with
\* surrounding whitespace trimmed, lower-cased in addition exactly when
\* the kind is emails or domains; usernames, subdomains, phone numbers and
\* urls keep their letter case.
\* ------------------------------------------------------------------------
\* the value the rule gives for a reported text of a kind
RuleValue(kind, text) ==
    IF kind \in {"emails", "domains"} THEN Strip(Lower(text)) ELSE Strip(text)

C21_NormalizationPerKind ==
    \A kind \in ScalarKindSet :
        aggregated[kind] = {RuleValue(kind, text) : text \in FedTexts(kind)}

\* ------------------------------------------------------------------------
\* C22: two structured records of one kind are collapsed only if they have
\* the same platform (absent read as "unknown") and the same identifier,
\* the first present of url, username, account, email: every record added
\* has a record with its key in the deduplicated list.  In particular two
\* social profiles on one platform without url and username but with
\* different emails are both kept.
\* ------------------------------------------------------------------------
\* every record added to a working list is represented, under its key, in
\* the list returned for it
KeptUnderItsKey(added, list) ==
    \A i \in DOMAIN added :
        \E j \in DOMAIN list : RecordKey(list[j]) = RecordKey(added[i])

C22_KeyDiscriminates ==
    LET data == GetAggregatedResults.data
    IN /\ KeptUnderItsKey(aggregated.social_profiles, data.social_profiles)
       /\ KeptUnderItsKey(aggregated.accounts, data.accounts)
       /\ KeptUnderItsKey(aggregated.breaches, data.breaches)

\* ------------------------------------------------------------------------
\* C23: the deduplication key of a structured record is derived whatever
\* optional fields are absent; a record without platform is keyed with
\* "unknown" as the platform component, and records without platform that
\* have the same identifier (url or username of a profile, account or
\* email of an account) are collapsed to one.
\* ------------------------------------------------------------------------
ProfileIdentifier(profile) == Get(profile, "url", Get(profile, "username", <<>>))

AccountIdentifier(account) == Get(account, "account", Get(account, "email", <<>>))

WithoutPlatform(record) == "platform" \notin DOMAIN record

\* the records of a list that have a key
WithProfileKey(list, key) == {k \in DOMAIN list : ProfileKey(list[k]) = key}

WithAccountKey(list, key) == {k \in DOMAIN list : AccountKey(list[k]) = key}

GlobalSection(plugin_name) ==
    Get(Get(config, "plugins", EmptyDict), plugin_name, EmptyDict)

C24_StepConfigWins ==
    \A k \in DOMAIN invoked :
        LET own == StepConfig(steps[invoked[k].step])
            global == GlobalSection(invoked[k].name)
            given == invoked[k].config
        IN /\ DOMAIN given = DOMAIN global \cup DOMAIN own
           /\ \A key \in DOMAIN own : given[key] = own[key]
           /\ \A key \in DOMAIN global \ DOMAIN own : given[key] = global[key]

\* a collector was run for a step that sets a key the global section sets
\* to another value, next to a key only the global section sets
C24_Witness ==
    \E k \in DOMAIN invoked :
        LET own == StepConfig(steps[invoked[k].step])
            global == GlobalSection(invoked[k].name)
        IN /\ \E key \in DOMAIN own \cap DOMAIN global : own[key] # global[key]
           /\ DOMAIN global \ DOMAIN own # {}
           /\ DOMAIN own \ DOMAIN global # {}

\* ------------------------------------------------------------------------
\* The highlights of a run
\* ------------------------------------------------------------------------
\* The works of the highlight runs: collectors report one address in several
\* spellings, a kind that has no highlight sentence, or an empty list
HighlightWorks ==
    {[outcome |-> "ok", duration |-> 0, findings |-> Finding("emails", List(<<Str(<<"a">>)>>))],
     [outcome |-> "ok", duration |-> 0, findings |-> Finding("emails", List(<<Str(<<"A">>)>>))],
     [outcome |-> "ok", duration |-> 0,
      findings |-> Finding("emails", List(<<Str(<<" ", "a">>), Str(<<"b">>)>>))],
     [outcome |-> "ok", duration |-> 0, findings |-> Finding("subdomains", List(<<>>))]}

StepHighlights == \E work \in HighlightWorks : RunStep(work)

NextHighlights == Register \/ Execute \/ StepHighlights \/ Seal

SpecHighlights == InitWorkflow /\ [][NextHighlights]_vars

\* the highlight kinds that have a sentence in the summary
Highlighted == {summary.highlights[i].kind : i \in DOMAIN summary.highlights}

\* the emails of the summary after .lower().strip()
NormalizedEmails == {Strip(Lower(x.v)) : x \in Range(summary.findings["emails"])}

\* a highlight exactly for the kinds of which the summary has a finding
HighlightPresence ==
    \A i \in DOMAIN HighlightKinds :
        HighlightKinds[i] \in Highlighted
           <=> /\ HighlightKinds[i] \in DOMAIN summary.findings
               /\ summary.findings[HighlightKinds[i]] # <<>>

\* C25: in a sealed run a highlight is emitted for a kind exactly when the
\* summary has at least one finding of that kind, and the number in the
\* email highlight is the number of distinct emails after lower-casing and
\* trimming.
C25_HighlightsAgree ==
    pc = "sealed" =>
        /\ HighlightPresence
        /\ \A i \in DOMAIN summary.highlights :
              summary.highlights[i].kind = "emails"
                 => summary.highlights[i].count = Cardinality(NormalizedEmails)

\* ------------------------------------------------------------------------
\* The CSV export of the emails
\* ------------------------------------------------------------------------
\* the collectors that reported an address, in any spelling of it
Reporters(email) ==
    {raw_results[i].plugin :
        i \in {j \in DOMAIN raw_results :
                  \E text \in ReportedTexts(held[raw_results[j].result].result, "emails") :
                      Normalize("emails", text) = email}}

\* the ways to list the names of a set, each once
Listings(names) ==
    {order \in [1..Cardinality(names) -> names] :
        \A i, j \in DOMAIN order : order[i] = order[j] => i = j}

\* C26: every email row of export_csv lists in its Sources column exactly
\* the distinct collectors that reported the address, each once and never
\* the placeholder unknown, and its Confidence column is the score of that
\* number of distinct collectors.
C26_CsvAttribution ==
    \A i \in DOMAIN ExportCsvEmails :
        LET row == ExportCsvEmails[i]
        IN /\ \E order \in Listings(Reporters(row.email)) :
                 row.sources = Join(", ", order)
           /\ row.confidence = ConfidenceOf(Cardinality(Reporters(row.email)))

\* ------------------------------------------------------------------------
\* Tasks on one event loop that feed one aggregator
\* ------------------------------------------------------------------------
\* tasks scheduled on the loop
MaxTasks == 3

\* what the collectors awaited by the tasks return
TaskFindings ==
    {Finding("emails", Str(<<"a">>)),
     Finding("emails", List(<<Str(<<"a">>), Str(<<"A", " ">>)>>))}

\* the tasks inside add_result
InCall == {t \in DOMAIN tasks : tasks[t] = "in_call"}

\* a loop that lets another task run while one is inside add_result
RunsAloneOrNot(t) == InCall \subseteq DOMAIN tasks \cup {t}

\* The event loop resumes a task only when the running one awaits or ends;
\* add_result is a plain def without await, so a task inside it keeps the loop.
RunsAlone(t) == InCall \subseteq {t}

\* a task is created: result = await <collector>, then add_result(name, result)
TaskSpawn(plugin_name, result) ==
    /\ Len(tasks) < MaxTasks
    /\ RunsAlone(Len(tasks) + 1)
    /\ tasks' = Append(tasks, "awaiting")
    /\ held' = Append(held, [plugin |-> plugin_name, result |-> result])
    /\ UNCHANGED <<raw_results, aggregated, sources, report>>
    /\ UNCHANGED orchVars

\* the task is cancelled while it awaits its collector
TaskAbandon(t) ==
    /\ tasks[t] = "awaiting"
    /\ RunsAlone(t)
    /\ tasks' = [tasks EXCEPT ![t] = "abandoned"]
    /\ UNCHANGED aggVars
    /\ UNCHANGED orchVars

\* the await returns and the task enters add_result: self.raw_results.append
TaskEnterAddResult(t) ==
    /\ tasks[t] = "awaiting"
    /\ RunsAlone(t)
    /\ tasks' = [tasks EXCEPT ![t] = "in_call"]
    /\ raw_results' = Append(raw_results, [plugin |-> held[t].plugin, result |-> t])
    /\ UNCHANGED <<held, aggregated, sources, report>>
    /\ UNCHANGED orchVars

\* the rest of add_result: the scalar and the structured blocks
TaskLeaveAddResult(t) ==
    /\ tasks[t] = "in_call"
    /\ RunsAlone(t)
    /\ LET st == AddResultTo([aggregated |-> aggregated, sources |-> sources],
                             held[t].plugin, held[t].result)
       IN /\ aggregated' = st.aggregated
          /\ sources' = st.sources
          /\ held' = [held EXCEPT ![t].result = StampResult(held[t].result, held[t].plugin)]
    /\ tasks' = [tasks EXCEPT ![t] = "done"]
    /\ UNCHANGED <<raw_results, report>>
    /\ UNCHANGED orchVars

Spawn ==
    \E plugin_name \in TwoPlugins, findings \in TaskFindings :
        TaskSpawn(plugin_name, SuccessResult(findings))

Abandon == \E t \in DOMAIN tasks : TaskAbandon(t)

EnterAddResult == \E t \in DOMAIN tasks : TaskEnterAddResult(t)

LeaveAddResult == \E t \in DOMAIN tasks : TaskLeaveAddResult(t)

NextTasks == Spawn \/ Abandon \/ EnterAddResult \/ LeaveAddResult

SpecTasks == Init /\ [][NextTasks]_vars

\* the order in which the calls of add_result began
CallOrder == [i \in DOMAIN raw_results |-> raw_results[i].result]

WithStatus(status) ==
    {i \in DOMAIN plugins :
        "status" \in DOMAIN plugins[i].result /\ plugins[i].result.status = status}

WithoutStatus == {i \in DOMAIN plugins : "status" \notin DOMAIN plugins[i].result}

\* C28: in every summary _generate_summary produces, successful plus failed
\* is total_plugins, successful is the number of recorded results whose
\* status is success, and every other recorded result, whatever its status
\* or without one, is counted as failed.
C28_CountPartition ==
    summary.generated =>
        /\ summary.successful + summary.failed = summary.total_plugins
        /\ summary.total_plugins = Len(plugins)
        /\ summary.successful = Cardinality(WithStatus("success"))
        /\ summary.failed = Cardinality(DOMAIN plugins \ WithStatus("success"))

\* a summary over a success, a failure and a result without status
C28_Witness ==
    /\ summary.generated
    /\ WithStatus("success") # {}
    /\ WithStatus("failed") # {}
    /\ WithoutStatus # {}
    /\ summary.failed = 2

\* ------------------------------------------------------------------------
\* The invocations of one execute_workflow call
\* ------------------------------------------------------------------------
\* the invocation a step adds to those made so far
Started == invoked'[Len(invoked')]

\* the entry of results['plugins'] an invocation leads to
OutcomeOf(entry) ==
    IF entry.raised THEN [status |-> "failed", error |-> entry.result.error]
    ELSE entry.result

\* C29: in a step of a run a collector is invoked at most once, for the
\* step the loop is at and whatever retry_failed, max_retries and
\* concurrent_scans say; the invocations before it have ended and the
\* outcomes of the steps before it are recorded; and when the step ends its
\* own outcome is recorded.
C29_OnceAndInTurn ==
    [][/\ Len(invoked') <= Len(invoked) + 1
       /\ \A k \in DOMAIN invoked : invoked'[k] = invoked[k]
       /\ Len(invoked') = Len(invoked) + 1 =>
             /\ Started.step = step_index + 1
             /\ step_index' = Started.step
             /\ \A k \in DOMAIN invoked :
                   /\ invoked[k].step < Started.step
                   /\ invoked[k].started + invoked[k].elapsed <= Started.started
             /\ \A j \in 1..step_index : IsRecorded(StepName(steps[j]))
             /\ \E i \in DOMAIN plugins' :
                   /\ plugins'[i].name = Started.name
                   /\ plugins'[i].result = OutcomeOf(Started)]_vars

\* under a configuration with retry_failed, max_retries and concurrent_scans
\* a collector failed, was invoked once, and the next step's collector ran
C29_Witness ==
    /\ Get(config, "retry_failed", FALSE)
    /\ Get(config, "max_retries", 0) > 0
    /\ Get(config, "concurrent_scans", 1) > 1
    /\ Len(invoked) = 2
    /\ ~IsSuccess(OutcomeOf(invoked[1]))
    /\ invoked[2].step = invoked[1].step + 1
    /\ invoked[1].elapsed > 0

\* ------------------------------------------------------------------------
\* Results that are not successes
\* ------------------------------------------------------------------------
\* a result as _create_result('failed', findings, error) builds it
FailedResult(findings) == CreateResult("failed", findings, Error("fault", ""))

\* results of every status: successes, failures that carry what was found
\* before the failure, and the findings dict HibpPlugin returns as its result
StatusResults ==
    UNION {{SuccessResult(findings), FailedResult(findings), findings} :
              findings \in {Finding("emails", List(<<Str(<<"a">>)>>)),
                            Finding("emails", List(<<Str(<<"b">>)>>)),
                            Finding("breaches", List(<<Dict([name |-> <<"B">>])>>))}}

CollectStatus ==
    \E plugin_name \in TwoPlugins, result \in StatusResults :
        Collect(plugin_name, result, MaxResults)

NextStatus == CollectStatus \/ AddResult

SpecStatus == Init /\ [][NextStatus]_vars

\* the calls of add_result that passed a success, in the order made
SuccessfulCalls == SelectSeq(CallOrder, LAMBDA t : IsSuccess(held[t].result))

\* the findings the summary merges are those of the successes recorded
SummaryOfSuccessesOnly ==
    summary.generated =>
        \A key \in DOMAIN summary.findings :
            \A x \in Range(summary.findings[key]) :
                \E i \in DOMAIN plugins :
                    /\ IsSuccess(plugins[i].result)
                    /\ key \in DOMAIN plugins[i].result.findings
                    /\ x \in Range(AsList(plugins[i].result.findings[key]))

\* C30: a result whose status is not success contributes nothing: the sets,
\* the lists and the source index of the aggregator are those the
\* successful results alone give, and the findings the summary merges come
\* from successful results.
C30_FailedContributeNothing ==
    /\ Replay(FreshState, SuccessfulCalls) = [aggregated |-> aggregated, sources |-> sources]
    /\ SummaryOfSuccessesOnly

====
